---- MODULE Spec2Model ----
(***************************************************************************)
(* linkfinder.py: origin resolution from a file path, progressive URL      *)
(* rebuilding, and the candidate filter of extract_paths.                  *)
(*                                                                         *)
(* A Python str is a sequence of one-character strings.                    *)
(***************************************************************************)
EXTENDS Integers, Sequences, FiniteSets

VARIABLES
    pc,             \* position of the running function
    raw,            \* extract_paths: match.group(1) of every regex match, in text order
    unique_paths,   \* extract_paths: the returned list
    js_file_path,   \* extract_base_url_from_path: its argument
    base_url,       \* Origin, first component (None when undefined)
    js_dir_url,     \* Origin, second component (None when undefined)
    relative_path,  \* rebuild_paths: its third argument
    current_url,    \* rebuild_paths: local current_url
    urls,           \* rebuild_paths: local urls (the returned list)
    results,        \* main: js_file -> paths, in insertion order
    file_idx,       \* write_path_rebuild_file: position in results.items()
    path_idx,       \* write_path_rebuild_file: position in paths
    path,           \* write_path_rebuild_file: loop variable path
    clean_path,     \* write_path_rebuild_file: local clean_path
    written,        \* lines written to new_path_rebuild
    report          \* lines written by write_output_file

vars == <<pc, raw, unique_paths, js_file_path, base_url, js_dir_url, relative_path,
          current_url, urls, results, file_idx, path_idx, path, clean_path, written,
          report>>

filterVars == <<raw, unique_paths>>

originVars == <<js_file_path, base_url, js_dir_url, relative_path, current_url, urls>>

pipeVars == <<results, file_idx, path_idx, path, clean_path, written, report>>

None == <<"<None>">>

Unused == <<"<unused>">>

(***************************************************************************)
(* Python str methods.                                                     *)
(***************************************************************************)
StartsWith(s, p) == Len(s) >= Len(p) /\ SubSeq(s, 1, Len(p)) = p

EndsWith(s, p) == Len(s) >= Len(p) /\ SubSeq(s, Len(s) - Len(p) + 1, Len(s)) = p

\* s[n:]
SliceFrom(s, n) == SubSeq(s, n + 1, Len(s))

\* s[:n]
SliceTo(s, n) == SubSeq(s, 1, n)

\* s.rstrip(c)
RECURSIVE RStrip(_, _)
RStrip(s, c) ==
    IF s # <<>> /\ s[Len(s)] = c THEN RStrip(SubSeq(s, 1, Len(s) - 1), c) ELSE s

\* s.rfind(c): 0-based index of the last c, -1 when there is none
RFind(s, c) ==
    LET hits == {i \in 1..Len(s) : s[i] = c}
    IN  IF hits = {} THEN -1 ELSE (CHOOSE i \in hits : \A j \in hits : j <= i) - 1

\* s.replace(a, b) for one-character a and b
Replace(s, a, b) == [i \in 1..Len(s) |-> IF s[i] = a THEN b ELSE s[i]]

\* s.replace(a, '')
Remove(s, a) == SelectSeq(s, LAMBDA ch : ch # a)

\* s.split(c)
RECURSIVE Split(_, _)
Split(s, c) ==
    LET hits == {i \in 1..Len(s) : s[i] = c}
    IN  IF hits = {} THEN <<s>>
        ELSE LET i == CHOOSE k \in hits : \A j \in hits : k <= j
             IN  <<SubSeq(s, 1, i - 1)>> \o Split(SubSeq(s, i + 1, Len(s)), c)

\* c.join(parts)
RECURSIVE Join(_, _)
Join(parts, c) ==
    IF parts = <<>> THEN <<>>
    ELSE IF Len(parts) = 1 THEN parts[1]
    ELSE parts[1] \o <<c>> \o Join(Tail(parts), c)

\* s.rsplit(c, 1)[0]
RSplitHead(s, c) == IF RFind(s, c) = -1 THEN s ELSE SliceTo(s, RFind(s, c))

(***************************************************************************)
(* Character classes of the regular expressions.                           *)
(***************************************************************************)
Lower == {"a", "b", "c", "d", "e", "f", "g", "h", "i", "j", "k", "l", "m",
          "n", "o", "p", "q", "r", "s", "t", "u", "v", "w", "x", "y", "z"}

Upper == {"A", "B", "C", "D", "E", "F", "G", "H", "I", "J", "K", "L", "M",
          "N", "O", "P", "Q", "R", "S", "T", "U", "V", "W", "X", "Y", "Z"}

Letter == Lower \cup Upper

Digit == {"0", "1", "2", "3", "4", "5", "6", "7", "8", "9"}

\* \w
WordChar == Letter \cup Digit \cup {"_"}

\* [a-zA-Z0-9.-]
DomainChar == Letter \cup Digit \cup {".", "-"}

\* [a-z0-9\-\+\.] under re.IGNORECASE
SubtypeChar == Letter \cup Digit \cup {"-", "+", "."}

AllIn(s, class) == \A i \in 1..Len(s) : s[i] \in class

\* What a pattern ending in $ may have consumed of s: all of s, or all of s
\* but one final newline.
DollarForms(s) ==
    {s} \cup (IF s # <<>> /\ s[Len(s)] = "\n" THEN {SubSeq(s, 1, Len(s) - 1)} ELSE {})

(***************************************************************************)
(* extract_base_url_from_path                                              *)
(***************************************************************************)
\* '.' in part and re.match(r'^[a-zA-Z0-9.-]+\.[a-zA-Z]{2,}$', part)
LooksLikeDomain(part) ==
    /\ \E i \in 1..Len(part) : part[i] = "."
    /\ \E t \in DollarForms(part) : \E k \in 2..Len(t) :
          /\ t[k] = "."
          /\ AllIn(SubSeq(t, 1, k - 1), DomainChar)
          /\ Len(t) - k >= 2
          /\ AllIn(SubSeq(t, k + 1, Len(t)), Letter)

ExtractLastDomain(file_path) ==
    LET parts == Split(Replace(file_path, "\\", "/"), "/")
        found == {i \in 1..Len(parts) : LooksLikeDomain(parts[i])}
    IN  IF found = {} THEN <<None, None>>
        ELSE LET i == CHOOSE k \in found : \A j \in found : j <= k
                 domain == parts[i]
                 js_relative_path == IF i + 1 <= Len(parts)
                                     THEN Join(SubSeq(parts, i + 1, Len(parts)), "/")
                                     ELSE <<>>
                 https == <<"h", "t", "t", "p", "s", ":", "/", "/">>
                 js_full_url == https \o domain \o <<"/">> \o js_relative_path
             IN  <<https \o domain \o <<"/">>, RSplitHead(js_full_url, "/") \o <<"/">>>>

ExtractBaseUrlFromPath(file_path) ==
    LET normalized_path == Replace(file_path, "\\", "/")
        parts == Split(normalized_path, "/")
        found == {i \in 1..Len(parts) : LooksLikeDomain(parts[i])}
    IN  IF found = {} THEN <<None, None>>
        ELSE LET i == CHOOSE k \in found : \A j \in found : k <= j
                 domain == parts[i]
                 js_relative_path == IF i + 1 <= Len(parts)
                                     THEN Join(SubSeq(parts, i + 1, Len(parts)), "/")
                                     ELSE <<>>
                 https == <<"h", "t", "t", "p", "s", ":", "/", "/">>
                 base == https \o domain \o <<"/">>
                 js_full_url == https \o domain \o <<"/">> \o js_relative_path
                 dir == RSplitHead(js_full_url, "/") \o <<"/">>
             IN  <<base, dir>>

(***************************************************************************)
(* rebuild_paths                                                           *)
(***************************************************************************)
CleanStripsDotDot(relative) ==
    IF StartsWith(relative, <<".", "/">>) THEN SliceFrom(relative, 2)
    ELSE IF StartsWith(relative, <<".", ".", "/">>) THEN SliceFrom(relative, 3)
    ELSE IF StartsWith(relative, <<".">>) THEN SliceFrom(relative, 1)
    ELSE relative

CleanRelativePath(relative) ==
    IF StartsWith(relative, <<".", "/">>) THEN SliceFrom(relative, 2)
    ELSE IF StartsWith(relative, <<".">>) THEN SliceFrom(relative, 1)
    ELSE relative

FullUrl(current, clean) ==
    IF EndsWith(current, <<"/">>) THEN current \o clean ELSE current \o <<"/">> \o clean

ReachedBase(current, base) == RStrip(current, "/") = RStrip(base, "/")

\* len(next_url.rstrip('/')) < len(base_without_slash)
BeforeBase(next_url, base) ==
    Len(RStrip(next_url, "/")) < Len(RStrip(base, "/"))

BodyCheckFirst(base, clean, current, out) ==
    IF ReachedBase(current, base)
    THEN [current_url |-> current, urls |-> out, done |-> TRUE]
    ELSE LET stripped == RStrip(current, "/")
             last_slash == RFind(stripped, "/")
             next_url == SliceTo(stripped, last_slash + 1)
             emitted == Append(out, FullUrl(current, clean))
         IN  IF last_slash = -1 \/ BeforeBase(next_url, base)
             THEN [current_url |-> stripped, urls |-> emitted, done |-> TRUE]
             ELSE [current_url |-> next_url, urls |-> emitted, done |-> FALSE]

BodyNoStrip(base, clean, current, out) ==
    LET emitted == Append(out, FullUrl(current, clean))
        last_slash == RFind(current, "/")
        next_url == SliceTo(current, last_slash + 1)
    IN  IF ReachedBase(current, base)
        THEN [current_url |-> current, urls |-> emitted, done |-> TRUE]
        ELSE IF last_slash = -1 \/ BeforeBase(next_url, base)
        THEN [current_url |-> current, urls |-> emitted, done |-> TRUE]
        ELSE [current_url |-> next_url, urls |-> emitted, done |-> FALSE]

\* One pass through the body of "while True": the values of current_url and
\* urls after it, and whether it left the loop.
LoopBody(base, clean, current, out) ==
    LET full_url == FullUrl(current, clean)
        emitted == Append(out, full_url)
    IN  IF ReachedBase(current, base)
        THEN [current_url |-> current, urls |-> emitted, done |-> TRUE]
        ELSE LET stripped == RStrip(current, "/")
                 last_slash == RFind(stripped, "/")
                 next_url == SliceTo(stripped, last_slash + 1)
             IN  IF last_slash = -1
                 THEN [current_url |-> stripped, urls |-> emitted, done |-> TRUE]
                 ELSE IF BeforeBase(next_url, base)
                 THEN [current_url |-> stripped, urls |-> emitted, done |-> TRUE]
                 ELSE [current_url |-> next_url, urls |-> emitted, done |-> FALSE]

\* The whole call, for callers that use only the returned list.
RECURSIVE RunLoop(_, _, _, _)
RunLoop(base, clean, current, out) ==
    LET st == LoopBody(base, clean, current, out)
    IN  IF st.done THEN st.urls ELSE RunLoop(base, clean, st.current_url, st.urls)

RebuildPaths(base, dir, relative) == RunLoop(base, CleanRelativePath(relative), dir, <<>>)

(***************************************************************************)
(* extract_paths: the filter over the regex matches, and the               *)
(* deduplication.                                                          *)
(***************************************************************************)
\* re.match(r'^[a-z]+/[a-z0-9\-\+\.]+$', text, re.IGNORECASE) is not None
IsMimeType(text) ==
    \E t \in DollarForms(text) : \E k \in 2..(Len(t) - 1) :
        /\ t[k] = "/"
        /\ AllIn(SubSeq(t, 1, k - 1), Letter)
        /\ AllIn(SubSeq(t, k + 1, Len(t)), SubtypeChar)

\* r'^[a-zA-Z]$'
SingleLetter(text) == \E t \in DollarForms(text) : Len(t) = 1 /\ t[1] \in Letter

\* r'^[0-9]+$'
OnlyNumbers(text) == \E t \in DollarForms(text) : Len(t) >= 1 /\ AllIn(t, Digit)

\* r'^\w+$'
OnlyWordChars(text) == \E t \in DollarForms(text) : Len(t) >= 1 /\ AllIn(t, WordChar)

SkipShortUpToThree(text) ==
    \/ SingleLetter(text)
    \/ OnlyNumbers(text)
    \/ (Len(text) <= 3 /\ OnlyWordChars(text))

\* should_skip after the loop over skip_patterns
ShouldSkip(text) ==
    \/ SingleLetter(text)
    \/ OnlyNumbers(text)
    \/ (Len(text) < 3 /\ OnlyWordChars(text))

\* Whether the loop over the matches appends this match to all_matches.
Appended(text) == text # <<>> /\ ~IsMimeType(text) /\ ~ShouldSkip(text)

\* all_matches after the loop over regex.finditer(content)
AllMatches(matches) == SelectSeq(matches, Appended)

RECURSIVE DedupPrepending(_, _)
DedupPrepending(all_matches, unique) ==
    IF all_matches = <<>> THEN unique
    ELSE LET text == Head(all_matches)
         IN  IF \E i \in 1..Len(unique) : unique[i] = text
             THEN DedupPrepending(Tail(all_matches), unique)
             ELSE DedupPrepending(Tail(all_matches), <<text>> \o unique)

RECURSIVE DedupKeepingLast(_, _)
DedupKeepingLast(all_matches, unique) ==
    IF all_matches = <<>> THEN unique
    ELSE LET text == Head(all_matches)
         IN  DedupKeepingLast(Tail(all_matches),
                              Append(SelectSeq(unique, LAMBDA u : u # text), text))

\* unique_paths after the loop over all_matches, started with the given
\* unique_paths (seen holds the same elements)
RECURSIVE RemoveDuplicates(_, _)
RemoveDuplicates(all_matches, unique) ==
    IF all_matches = <<>> THEN unique
    ELSE LET text == Head(all_matches)
             seen == {unique[i] : i \in 1..Len(unique)}
         IN  IF text \notin seen
             THEN RemoveDuplicates(Tail(all_matches), Append(unique, text))
             ELSE RemoveDuplicates(Tail(all_matches), unique)

ExtractPaths(matches) == RemoveDuplicates(AllMatches(matches), <<>>)

(***************************************************************************)
(* write_path_rebuild_file and write_output_file                           *)
(***************************************************************************)
\* clean_path as passed to rebuild_paths
StripPrefix(candidate) ==
    LET spaceless == Remove(candidate, " ")
    IN  IF StartsWith(spaceless, <<".", "/">>) THEN SliceFrom(spaceless, 2)
        ELSE IF StartsWith(spaceless, <<".", ".", "/">>) THEN SliceFrom(spaceless, 3)
        ELSE IF StartsWith(spaceless, <<".">>) THEN SliceFrom(spaceless, 1)
        ELSE spaceless

OpenFileOrStop(res, idx) ==
    LET origin == ExtractBaseUrlFromPath(res[idx].js_file)
    IN  IF origin[1] = None
        THEN [pc |-> "closed", file_idx |-> idx, origin |-> origin]
        ELSE [pc |-> "path", file_idx |-> idx, origin |-> origin]

\* The head of one pass of the loop over results.items(): the Origin of the
\* file, and where the pass goes next ("continue" when there is none).
OpenFile(res, idx) ==
    LET origin == ExtractBaseUrlFromPath(res[idx].js_file)
    IN  IF origin[1] = None
        THEN [pc |-> "file", file_idx |-> idx + 1, origin |-> origin]
        ELSE [pc |-> "path", file_idx |-> idx, origin |-> origin]

RuleWidth == 80

\* The lines write_output_file writes for one (js_file, paths) item.
FileReport(item) ==
    << <<>>, [i \in 1..RuleWidth |-> "="], <<"F", "i", "l", "e", ":", " ">> \o item.js_file,
       [i \in 1..RuleWidth |-> "="] >> \o item.paths

RECURSIVE OutputLines(_)
OutputLines(res) ==
    IF res = <<>> THEN <<>> ELSE FileReport(Head(res)) \o OutputLines(Tail(res))

\* Python's order on the characters of the file paths used here.
CodePoint(ch) ==
    CASE ch = "." -> 46 [] ch = "/" -> 47 [] ch = "\\" -> 92 [] ch = "_" -> 95
      [] ch = "a" -> 97 [] ch = "b" -> 98 [] ch = "c" -> 99 [] ch = "j" -> 106
      [] ch = "m" -> 109 [] ch = "r" -> 114 [] ch = "s" -> 115

\* s < t for str
RECURSIVE StrLess(_, _)
StrLess(s, t) ==
    IF t = <<>> THEN FALSE
    ELSE IF s = <<>> THEN TRUE
    ELSE IF s[1] = t[1] THEN StrLess(Tail(s), Tail(t))
    ELSE CodePoint(s[1]) < CodePoint(t[1])

(***************************************************************************)
(* Bounds and input pools.                                                 *)
(***************************************************************************)
MaxBaseLen == 3

MaxDirLen == 5

MaxCandLen == 2

MaxDirs == 3

UrlChars == {"a", "/"}

CandChars == {"a", ".", "/"}

ExampleBase == <<"h", "t", "t", "p", "s", ":", "/", "/", "e", "x", "a", "m", "p", "l", "e", ".", "c", "o", "m", "/">>

ExampleDir == <<"h", "t", "t", "p", "s", ":", "/", "/", "e", "x", "a", "m", "p", "l", "e", ".", "c", "o", "m", "/", "a", "p", "p", "/", "j", "s", "/">>

ExampleCandidate == <<".", ".", "/", "a", "p", "i", "/", "d", "a", "t", "a", ".", "j", "s", "o", "n">>

ExampleStripped == <<"a", "p", "i", "/", "d", "a", "t", "a", ".", "j", "s", "o", "n">>

ExamplePath == <<"r", "e", "s", "u", "l", "t", "s", "/", "j", "s", "_", "f", "i", "l", "e", "s", "/", "e", "x", "a", "m", "p", "l", "e", ".", "c", "o", "m", "/", "a", "p", "p", "/", "m", "a", "i", "n", ".", "j", "s">>

DirSegments == {<<>>, <<"r">>, <<"a", ".", "b", "c">>, <<"v", ".", "1">>}

FileNames == {<<"m", ".", "j", "s">>, <<"m", "_", ".", "j", "s">>}

Separators == {"/", "\\"}

RECURSIVE BuildPath(_, _, _)
BuildPath(dirs, seps, file) ==
    IF dirs = <<>> THEN file
    ELSE dirs[1] \o <<seps[1]>> \o BuildPath(Tail(dirs), Tail(seps), file)

OriginCandidates == {<<".", "/", "x">>, <<".", ".", "/", "x">>, <<"x">>}

MaxRaw == 3

MaxFiles == 2

MaxCands == 2

RawPool == {<<>>, <<"a">>, <<"1", "2">>, <<"a", "b">>, <<"a", "b", "c">>, <<"a", ".">>, <<"A", "/", "b", "-", "1">>, <<"a", "u", "d", "i", "o", "/", "o", "g", "g">>,
            <<"/", "a", "p", "i", "/", "v", "1", "/", "u", "s", "e", "r", "s">>}

PipeFiles == {<<"_", "r", "/", "m", "_", ".", "j", "s">>, <<"a", ".", "b", "c", "/", "m", ".", "j", "s">>, <<"a", ".", "b", "c", "/", "r", "/", "m", ".", "j", "s">>}

PipeCandidates == {<<".", "/", "x", "y">>, <<".", ".", "/", ".", ".", "/", "x">>, <<"/", "a", "b">>}

\* The variables of the functions a specification does not run.
FilterIdle == raw = Unused /\ unique_paths = Unused

PipeIdle ==
    /\ results = Unused
    /\ file_idx = 0
    /\ path_idx = 0
    /\ path = Unused
    /\ clean_path = Unused
    /\ written = Unused
    /\ report = Unused

(***************************************************************************)
(* A call rebuild_paths(base_url, js_dir_url, relative_path), one loop     *)
(* pass per step.                                                          *)
(***************************************************************************)
InitRebuild ==
    /\ \/ /\ \E k \in 0..MaxBaseLen : base_url \in [1..k -> UrlChars]
          /\ \E k \in 0..MaxDirLen : js_dir_url \in [1..k -> UrlChars]
          /\ \E k \in 0..MaxCandLen : relative_path \in [1..k -> CandChars]
       \/ /\ base_url = ExampleBase
          /\ js_dir_url = ExampleDir
          /\ relative_path \in {ExampleCandidate, ExampleStripped}
    /\ current_url = js_dir_url
    /\ urls = <<>>
    /\ js_file_path = Unused
    /\ pc = "loop"
    /\ FilterIdle
    /\ PipeIdle

RebuildIter ==
    /\ pc = "loop"
    /\ LET st == LoopBody(base_url, CleanRelativePath(relative_path), current_url, urls)
       IN  /\ current_url' = st.current_url
           /\ urls' = st.urls
           /\ pc' = IF st.done THEN "done" ELSE "loop"
    /\ UNCHANGED <<js_file_path, base_url, js_dir_url, relative_path, filterVars, pipeVars>>

SpecRebuild == InitRebuild /\ [][RebuildIter]_vars

(***************************************************************************)
(* extract_base_url_from_path(js_file_path), then rebuild_paths on the     *)
(* Origin it returns.                                                      *)
(***************************************************************************)
InitOrigin ==
    /\ \/ js_file_path = ExamplePath
       \/ \E k \in 0..MaxDirs :
              \E ds \in [1..k -> DirSegments], ss \in [1..k -> Separators], f \in FileNames :
                  js_file_path = BuildPath(ds, ss, f)
    /\ relative_path \in OriginCandidates
    /\ base_url = Unused
    /\ js_dir_url = Unused
    /\ current_url = Unused
    /\ urls = <<>>
    /\ pc = "resolve"
    /\ FilterIdle
    /\ PipeIdle

Resolve ==
    /\ pc = "resolve"
    /\ LET origin == ExtractBaseUrlFromPath(js_file_path)
       IN  /\ base_url' = origin[1]
           /\ js_dir_url' = origin[2]
           /\ current_url' = origin[2]
           /\ pc' = IF origin[1] = None THEN "done" ELSE "loop"
    /\ UNCHANGED <<js_file_path, relative_path, urls, filterVars, pipeVars>>

NextOrigin == Resolve \/ RebuildIter

SpecOrigin == InitOrigin /\ [][NextOrigin]_vars

(***************************************************************************)
(* extract_paths on the matches raw, and again on its own result.          *)
(***************************************************************************)
RebuildIdle ==
    /\ js_file_path = Unused
    /\ base_url = Unused
    /\ js_dir_url = Unused
    /\ relative_path = Unused
    /\ current_url = Unused
    /\ urls = Unused

InitFilter ==
    /\ \E k \in 0..MaxRaw : raw \in [1..k -> RawPool]
    /\ unique_paths = <<>>
    /\ pc = "extract"
    /\ RebuildIdle
    /\ PipeIdle

Extract ==
    /\ pc = "extract"
    /\ unique_paths' = ExtractPaths(raw)
    /\ pc' = "filtered"
    /\ UNCHANGED <<raw, originVars, pipeVars>>

Refilter ==
    /\ pc = "filtered"
    /\ raw' = unique_paths
    /\ unique_paths' = ExtractPaths(unique_paths)
    /\ pc' = "refiltered"
    /\ UNCHANGED <<originVars, pipeVars>>

NextFilter == Extract \/ Refilter

SpecFilter == InitFilter /\ [][NextFilter]_vars

(***************************************************************************)
(* write_path_rebuild_file(results), then write_output_file(results).      *)
(***************************************************************************)
\* What extract_paths can return for a file that gets into results.
CandidateLists ==
    {ps \in UNION {[1..k -> PipeCandidates] : k \in 1..MaxCands} : ExtractPaths(ps) = ps}

\* js_files as find_js_files returns it: sorted, no path twice.
SortedFiles(files) ==
    \A i \in 1..(Len(files) - 1) : StrLess(files[i], files[i + 1])

InitPipeline ==
    /\ \E k \in 1..MaxFiles :
           \E files \in [1..k -> PipeFiles] :
               /\ SortedFiles(files)
               /\ \E found \in [1..k -> CandidateLists] :
                      results = [i \in 1..k |-> [js_file |-> files[i], paths |-> found[i]]]
    /\ file_idx = 1
    /\ path_idx = 0
    /\ path = <<>>
    /\ clean_path = <<>>
    /\ written = <<>>
    /\ report = <<>>
    /\ base_url = None
    /\ js_dir_url = None
    /\ urls = <<>>
    /\ js_file_path = Unused
    /\ relative_path = Unused
    /\ current_url = Unused
    /\ pc = "file"
    /\ FilterIdle

\* for js_file, paths in results.items(): the next file, up to "continue" or
\* to the loop over its paths
NextFile ==
    /\ pc = "file"
    /\ file_idx <= Len(results)
    /\ LET st == OpenFile(results, file_idx)
       IN  /\ base_url' = st.origin[1]
           /\ js_dir_url' = st.origin[2]
           /\ file_idx' = st.file_idx
           /\ pc' = st.pc
    /\ path_idx' = 1
    /\ UNCHANGED <<results, path, clean_path, written, report, urls, js_file_path,
                   relative_path, current_url, filterVars>>

\* for path in paths: one path
NextPath ==
    /\ pc = "path"
    /\ LET paths == results[file_idx].paths
           candidate == paths[path_idx]
       IN  /\ path' = candidate
           /\ IF StartsWith(candidate, <<".">>)
              THEN /\ clean_path' = StripPrefix(candidate)
                   /\ urls' = RebuildPaths(base_url, js_dir_url, StripPrefix(candidate))
                   /\ written' = written \o RebuildPaths(base_url, js_dir_url,
                                                         StripPrefix(candidate))
              ELSE UNCHANGED <<clean_path, urls, written>>
           /\ IF path_idx < Len(paths)
              THEN path_idx' = path_idx + 1 /\ UNCHANGED <<file_idx, pc>>
              ELSE path_idx' = 0 /\ file_idx' = file_idx + 1 /\ pc' = "file"
    /\ UNCHANGED <<results, report, base_url, js_dir_url, js_file_path, relative_path,
                   current_url, filterVars>>

\* the end of the loop over results.items(): new_path_rebuild is closed
CloseRebuildFile ==
    /\ pc = "file"
    /\ file_idx > Len(results)
    /\ pc' = "closed"
    /\ UNCHANGED <<originVars, pipeVars, filterVars>>

WriteOutputFile ==
    /\ pc = "closed"
    /\ report' = OutputLines(results)
    /\ pc' = "reported"
    /\ UNCHANGED <<originVars, results, file_idx, path_idx, path, clean_path, written,
                   filterVars>>

NextPipeline == NextFile \/ NextPath \/ CloseRebuildFile \/ WriteOutputFile

SpecPipeline == InitPipeline /\ [][NextPipeline]_vars

(***************************************************************************)
(* Properties of rebuild_paths called directly (SpecRebuild).              *)
(***************************************************************************)
ExampleCall(candidate) ==
    /\ pc = "done"
    /\ base_url = ExampleBase
    /\ js_dir_url = ExampleDir
    /\ relative_path = candidate

\* C1 as stated: for baseURL https://example.com/, currentDirURL
\* https://example.com/app/js/ and candidate ../api/data.json, rebuild_paths
\* returns https://example.com/app/js/api/data.json, then
\* https://example.com/app/api/data.json, and last https://example.com/api/data.json.
C1_ExampleAsStated ==
    ExampleCall(ExampleCandidate) =>
        /\ Len(urls) >= 3
        /\ urls[1] = <<"h", "t", "t", "p", "s", ":", "/", "/", "e", "x", "a", "m", "p", "l", "e", ".", "c", "o", "m", "/", "a", "p", "p", "/", "j", "s", "/", "a", "p", "i", "/", "d", "a", "t", "a", ".", "j", "s", "o", "n">>
        /\ urls[2] = <<"h", "t", "t", "p", "s", ":", "/", "/", "e", "x", "a", "m", "p", "l", "e", ".", "c", "o", "m", "/", "a", "p", "p", "/", "a", "p", "i", "/", "d", "a", "t", "a", ".", "j", "s", "o", "n">>
        /\ urls[Len(urls)] = <<"h", "t", "t", "p", "s", ":", "/", "/", "e", "x", "a", "m", "p", "l", "e", ".", "c", "o", "m", "/", "a", "p", "i", "/", "d", "a", "t", "a", ".", "j", "s", "o", "n">>

\* C1 amended: for that call rebuild_paths removes only the first '.' of
\* '../', so it returns exactly https://example.com/app/js/./api/data.json,
\* https://example.com/app/./api/data.json and https://example.com/./api/data.json;
\* the three URLs of the claim are returned for the candidate api/data.json,
\* which is what write_path_rebuild_file passes after stripping '../'.
C1_ExampleKeepsDotSlash ==
    /\ ExampleCall(ExampleCandidate) =>
           urls = << <<"h", "t", "t", "p", "s", ":", "/", "/", "e", "x", "a", "m", "p", "l", "e", ".", "c", "o", "m", "/", "a", "p", "p", "/", "j", "s", "/", ".", "/", "a", "p", "i", "/", "d", "a", "t", "a", ".", "j", "s", "o", "n">>,
                     <<"h", "t", "t", "p", "s", ":", "/", "/", "e", "x", "a", "m", "p", "l", "e", ".", "c", "o", "m", "/", "a", "p", "p", "/", ".", "/", "a", "p", "i", "/", "d", "a", "t", "a", ".", "j", "s", "o", "n">>,
                     <<"h", "t", "t", "p", "s", ":", "/", "/", "e", "x", "a", "m", "p", "l", "e", ".", "c", "o", "m", "/", ".", "/", "a", "p", "i", "/", "d", "a", "t", "a", ".", "j", "s", "o", "n">> >>
    /\ ExampleCall(ExampleStripped) =>
           urls = << <<"h", "t", "t", "p", "s", ":", "/", "/", "e", "x", "a", "m", "p", "l", "e", ".", "c", "o", "m", "/", "a", "p", "p", "/", "j", "s", "/", "a", "p", "i", "/", "d", "a", "t", "a", ".", "j", "s", "o", "n">>,
                     <<"h", "t", "t", "p", "s", ":", "/", "/", "e", "x", "a", "m", "p", "l", "e", ".", "c", "o", "m", "/", "a", "p", "p", "/", "a", "p", "i", "/", "d", "a", "t", "a", ".", "j", "s", "o", "n">>,
                     <<"h", "t", "t", "p", "s", ":", "/", "/", "e", "x", "a", "m", "p", "l", "e", ".", "c", "o", "m", "/", "a", "p", "i", "/", "d", "a", "t", "a", ".", "j", "s", "o", "n">> >>

C1_ExampleReturned == ExampleCall(ExampleCandidate) /\ Len(urls) = 3

\* The candidate with one leading './' or else a single leading '.' removed.
Cleaned(candidate) ==
    CASE Len(candidate) >= 2 /\ candidate[1] = "." /\ candidate[2] = "/" ->
             SubSeq(candidate, 3, Len(candidate))
      [] Len(candidate) >= 1 /\ candidate[1] = "." ->
             SubSeq(candidate, 2, Len(candidate))
      [] OTHER -> candidate

\* The directory named by a URL: the URL without its one trailing '/'.
WithoutSlash(url) ==
    IF url # <<>> /\ url[Len(url)] = "/" THEN SubSeq(url, 1, Len(url) - 1) ELSE url

\* C2: rebuild_paths returns a non-empty list whose first element is
\* currentDirURL, one '/', and the cleaned candidate; the first element is
\* emitted before any termination check, so when currentDirURL equals baseURL
\* up to trailing slashes the result is that one element.
C2_FirstJoinAlwaysEmitted ==
    /\ pc = "done" => urls # <<>>
    /\ urls # <<>> =>
           urls[1] = WithoutSlash(js_dir_url) \o <<"/">> \o Cleaned(relative_path)
    /\ (pc = "done" /\ RStrip(js_dir_url, "/") = RStrip(base_url, "/")) => Len(urls) = 1

C2_SingleLevelCall ==
    /\ pc = "done"
    /\ RStrip(js_dir_url, "/") = RStrip(base_url, "/")
    /\ js_dir_url # base_url
    /\ StartsWith(relative_path, <<".", "/">>)
    /\ Len(urls) = 1

\* C4: every pass of the loop either leaves the loop or makes current_url
\* strictly shorter, and a shortened current_url is never shorter than
\* baseURL with its trailing slashes trimmed; so the loop ends after at most
\* len(currentDirURL) + 1 passes, whatever the three strings are.
C4_LoopTerminates ==
    [][pc = "loop" =>
          /\ Len(urls') = Len(urls) + 1
          /\ Len(urls') <= Len(js_dir_url) + 1
          /\ \/ pc' = "done"
             \/ /\ pc' = "loop"
                /\ Len(current_url') < Len(current_url)
                /\ Len(current_url') >= Len(RStrip(base_url, "/"))]_vars

C4_ClimbOutsideBase ==
    /\ pc = "loop"
    /\ urls # <<>>
    /\ Len(current_url) < Len(js_dir_url)
    /\ ~StartsWith(js_dir_url, base_url)

(***************************************************************************)
(* Properties of the Origin and of rebuild_paths on it (SpecOrigin).       *)
(***************************************************************************)
\* The segments of a path, split on '/' and on '\'.
RECURSIVE Segments(_)
Segments(file_path) ==
    LET seps == {i \in 1..Len(file_path) : file_path[i] = "/" \/ file_path[i] = "\\"}
    IN  IF seps = {} THEN <<file_path>>
        ELSE LET i == CHOOSE k \in seps : \A j \in seps : k <= j
             IN  <<SubSeq(file_path, 1, i - 1)>> \o Segments(SubSeq(file_path, i + 1, Len(file_path)))

\* The domain shape: characters of [a-zA-Z0-9.-], a dot, two or more letters.
DomainShape(seg) ==
    \E k \in 2..(Len(seg) - 2) :
        /\ seg[k] = "."
        /\ \A i \in 1..(k - 1) : seg[i] \in DomainChar
        /\ \A i \in (k + 1)..Len(seg) : seg[i] \in Letter

DomainIndexes == {i \in 1..Len(Segments(js_file_path)) : DomainShape(Segments(js_file_path)[i])}

FirstDomainIndex == CHOOSE i \in DomainIndexes : \A j \in DomainIndexes : i <= j

\* The directory segments between the domain segment and the filename.
DirsAfterDomain ==
    LET segs == Segments(js_file_path)
    IN  SubSeq(segs, FirstDomainIndex + 1, Len(segs) - 1)

\* segs[1]/segs[2]/.../segs[j]/
RECURSIVE DirPrefix(_, _)
DirPrefix(segs, j) ==
    IF j = 0 THEN <<>> ELSE DirPrefix(segs, j - 1) \o segs[j] \o <<"/">>

\* C5: extract_base_url_from_path returns (None, None), or baseURL =
\* https://d/ for the first segment d of domain shape and a currentDirURL
\* that has baseURL as prefix, ends in '/', and is baseURL followed by the
\* segments after d without the filename; results/js_files/example.com/app/main.js
\* gives https://example.com/ and https://example.com/app/, and a file
\* directly under the domain directory gives currentDirURL = baseURL.
C5_OriginFromFirstDomain ==
    pc # "resolve" =>
        /\ IF DomainIndexes = {}
           THEN base_url = None /\ js_dir_url = None
           ELSE /\ base_url = <<"h", "t", "t", "p", "s", ":", "/", "/">> \o Segments(js_file_path)[FirstDomainIndex] \o <<"/">>
                /\ js_dir_url = base_url \o DirPrefix(DirsAfterDomain, Len(DirsAfterDomain))
                /\ StartsWith(js_dir_url, base_url)
                /\ EndsWith(js_dir_url, <<"/">>)
                /\ Len(DirsAfterDomain) = 0 => js_dir_url = base_url
        /\ js_file_path = ExamplePath =>
               /\ base_url = <<"h", "t", "t", "p", "s", ":", "/", "/", "e", "x", "a", "m", "p", "l", "e", ".", "c", "o", "m", "/">>
               /\ js_dir_url = <<"h", "t", "t", "p", "s", ":", "/", "/", "e", "x", "a", "m", "p", "l", "e", ".", "c", "o", "m", "/", "a", "p", "p", "/">>

C5_BackslashPathResolved ==
    /\ pc = "done"
    /\ base_url # None
    /\ \E i \in 1..Len(js_file_path) : js_file_path[i] = "\\"
    /\ Len(DirsAfterDomain) = 1
    /\ FirstDomainIndex > 1
    /\ js_dir_url # base_url

\* C3 as stated: element k of the list is the cleaned candidate joined to
\* currentDirURL with its last k segments removed, one element per level,
\* the last one being the join with baseURL.
C3_OneUrlPerLevel ==
    (pc = "done" /\ base_url # None) =>
        LET n == Len(DirsAfterDomain)
        IN  /\ Len(urls) = n + 1
            /\ \A k \in 0..n :
                   urls[k + 1] = base_url \o DirPrefix(DirsAfterDomain, n - k)
                                          \o Cleaned(relative_path)
            /\ urls[Len(urls)] = base_url \o Cleaned(relative_path)

(***************************************************************************)
(* Properties of the filter of extract_paths (SpecFilter).                 *)
(***************************************************************************)
Range(seq) == {seq[i] : i \in 1..Len(seq)}

\* Letters, '/', then letters, digits, '-', '+' or '.', in either case, from
\* the first character to the last.
MimeShape(text) ==
    \E k \in 2..(Len(text) - 1) :
        /\ text[k] = "/"
        /\ \A i \in 1..(k - 1) : text[i] \in Letter
        /\ \A i \in (k + 1)..Len(text) : text[i] \in SubtypeChar

\* The four rejection rules.
Rejected(text) ==
    \/ MimeShape(text)
    \/ Len(text) = 1 /\ text[1] \in Letter
    \/ \A i \in 1..Len(text) : text[i] \in Digit
    \/ Len(text) < 3 /\ \A i \in 1..Len(text) : text[i] \in WordChar

\* C6: no returned candidate has the MIME-type shape, is one letter, consists
\* only of digits, or is shorter than 3 characters and made only of word
\* characters, and every raw match that triggers none of the four rules is
\* returned: audio/ogg, a and 12 are rejected, /api/v1/users is kept.
C6_RejectedExactlyByRules ==
    pc = "filtered" =>
        /\ \A i \in 1..Len(unique_paths) : ~Rejected(unique_paths[i])
        /\ \A i \in 1..Len(raw) : ~Rejected(raw[i]) => raw[i] \in Range(unique_paths)
        /\ Range(unique_paths) \cap {<<"a", "u", "d", "i", "o", "/", "o", "g", "g">>, <<"a">>, <<"1", "2">>} = {}
        /\ <<"/", "a", "p", "i", "/", "v", "1", "/", "u", "s", "e", "r", "s">> \in Range(raw) => <<"/", "a", "p", "i", "/", "v", "1", "/", "u", "s", "e", "r", "s">> \in Range(unique_paths)

C6_MimeDroppedPathKept ==
    /\ pc = "filtered"
    /\ raw = << <<"a", "u", "d", "i", "o", "/", "o", "g", "g">>, <<"/", "a", "p", "i", "/", "v", "1", "/", "u", "s", "e", "r", "s">>, <<"1", "2">> >>
    /\ unique_paths = << <<"/", "a", "p", "i", "/", "v", "1", "/", "u", "s", "e", "r", "s">> >>

\* The position of the first occurrence of text in seq.
FirstIndex(seq, text) ==
    CHOOSE i \in 1..Len(seq) : seq[i] = text /\ \A j \in 1..(i - 1) : seq[j] # text

\* C7: the returned list is no longer than the list of raw matches, holds no
\* text twice, and lists the survivors in the order of their first
\* occurrence among the raw matches.
C7_UniqueInFirstSeenOrder ==
    pc = "filtered" =>
        /\ Len(unique_paths) <= Len(raw)
        /\ \A i, j \in 1..Len(unique_paths) : i # j => unique_paths[i] # unique_paths[j]
        /\ Range(unique_paths) \subseteq Range(raw)
        /\ \A i, j \in 1..Len(unique_paths) :
               i < j => FirstIndex(raw, unique_paths[i]) < FirstIndex(raw, unique_paths[j])

C7_LaterDuplicateDropped ==
    /\ pc = "filtered"
    /\ Len(raw) = 3
    /\ raw[1] = raw[3]
    /\ raw[1] # raw[2]
    /\ unique_paths = <<raw[1], raw[2]>>

\* C8: the filter applied to a list it returned gives back that list.
C8_FilterIdempotent ==
    [][pc = "filtered" => unique_paths' = unique_paths]_vars

C8_RefilteredSeveral ==
    /\ pc = "refiltered"
    /\ Len(unique_paths) >= 2

(***************************************************************************)
(* Properties of write_path_rebuild_file (SpecPipeline).                   *)
(***************************************************************************)
NoDomainSegment(file) ==
    \A i \in 1..Len(Segments(file)) : ~DomainShape(Segments(file)[i])

\* The lines of the report that follow the "File:" line of item, after the rule.
ReportedPaths(item) ==
    \E k \in 1..Len(report) :
        /\ report[k] = <<"F", "i", "l", "e", ":", " ">> \o item.js_file
        /\ k + 1 + Len(item.paths) <= Len(report)
        /\ \A j \in 1..Len(item.paths) : report[k + 1 + j] = item.paths[j]

\* C9: for a file none of whose path segments has the domain shape the
\* Origin is (None, None), write_path_rebuild_file writes no URL and goes on
\* to the next file; results is never changed, and the file's candidates are
\* reported like those of the other files.
C9_FileWithoutOriginSkipped ==
    [][/\ results' = results
       /\ (pc = "file" /\ file_idx <= Len(results)
               /\ NoDomainSegment(results[file_idx].js_file)) =>
              /\ base_url' = None
              /\ js_dir_url' = None
              /\ written' = written
              /\ file_idx' = file_idx + 1
              /\ pc' = "file"
       /\ pc' = "reported" =>
              \A i \in 1..Len(results) : ReportedPaths(results[i])' ]_vars

C9_SkippedThenRebuilt ==
    /\ pc = "reported"
    /\ Len(results) = 2
    /\ NoDomainSegment(results[1].js_file)
    /\ written # <<>>

\* The candidate without one leading './', '../' or '.'.
WithoutOnePrefix(candidate) ==
    CASE StartsWith(candidate, <<".", "/">>) -> SubSeq(candidate, 3, Len(candidate))
      [] StartsWith(candidate, <<".", ".", "/">>) -> SubSeq(candidate, 4, Len(candidate))
      [] StartsWith(candidate, <<".">>) -> SubSeq(candidate, 2, Len(candidate))
      [] OTHER -> candidate

\* C10: only candidates that begin with '.' are rebuilt, and the prefix is
\* removed once in total: the cleanup inside rebuild_paths leaves the path it
\* is given unchanged, so every URL written for a candidate ends with the
\* candidate without one leading prefix.
C10_PrefixRemovedOnce ==
    /\ (path # <<>> /\ ~StartsWith(path, <<".">>)) =>
           \A i \in 1..Len(written) : ~EndsWith(written[i], path)
    /\ StartsWith(path, <<".">>) =>
           /\ clean_path = WithoutOnePrefix(path)
           /\ Cleaned(clean_path) = clean_path
           /\ \A i \in 1..Len(urls) : EndsWith(urls[i], WithoutOnePrefix(path))

====
